---- MODULE Spec2Model ----
(***************************************************************************)
(* Model of the two command-line scripts of the repository:                *)
(*   scripts/csv_to_excel.py  (the converter)                              *)
(*   scripts/test_excel.py    (the inspector)                              *)
(* A session is one filesystem on which the converter is run at most once  *)
(* and the inspector at most once afterwards.  Every statement of the two  *)
(* scripts is one action; the tabular-data library calls (read_csv,        *)
(* to_excel, read_excel, head) are operators that compute what the calls   *)
(* compute on a file's records.                                            *)
(***************************************************************************)
EXTENDS Integers, Sequences, FiniteSets, TLC

VARIABLES fs, tool, argv, pc, df, exc, ret, exit_code, stdout, io, fs0, prev

vars == <<fs, tool, argv, pc, df, exc, ret, exit_code, stdout, io, fs0, prev>>

(***************************************************************************)
(* Bounds of the model and the program's constants.                        *)
(***************************************************************************)
\* most data lines of a CSV file on the initial filesystem
MaxCsvRows == 2
\* most non-empty data rows of a workbook on the initial filesystem
MaxSheetRows == 6
\* DataFrame.head() keeps the first five rows
HeadRows == 5

Paths == {"p1", "p2"}

\* argument vectors (sys.argv[1:]) of up to three paths
ArgVectors == UNION {[1..n -> Paths] : n \in 0..3}

Min(a, b) == IF a < b THEN a ELSE b
Max(a, b) == IF a > b THEN a ELSE b

(***************************************************************************)
(* Files.  A file is absent, unparsable bytes, delimited text (its lines,  *)
(* each a sequence of fields) or a workbook (the cell rows of its sheet).  *)
(***************************************************************************)
File(k, ls) == [kind |-> k, lines |-> ls]
Absent == File("absent", <<>>)
Garbage == File("garbage", <<>>)

CsvHeaders == {<<"a">>, <<"">>, <<"a", "b">>, <<"b", "a">>, <<"a", "a">>, <<"a", "">>}
Fields == {"", "x"}
Filled(n) == [i \in 1..n |-> "x"]

\* the data lines written under a header of k fields: every line of k
\* fields, one line that is a field short and one that is a field long
CsvLines(k) ==
    [1..k -> Fields] \cup {Filled(k + 1)} \cup (IF k > 1 THEN {Filled(k - 1)} ELSE {})

CsvData(k) == UNION {[1..n -> CsvLines(k)] : n \in 0..MaxCsvRows}

CsvFiles == UNION {{File("csv", <<h>> \o d) : d \in CsvData(Len(h))} : h \in CsvHeaders}

SheetHeaders == {<<"a">>, <<"a", "b">>, <<"a", "a">>, <<"a", "">>}

\* a sheet: a header row, n filled rows, then e rows of empty cells
Sheet(h, n, e) ==
    <<h>> \o [i \in 1..(n + e) |-> IF i <= n THEN Filled(Len(h)) ELSE [j \in 1..Len(h) |-> ""]]

Workbooks ==
    {File("xlsx", Sheet(h, n, e)) : h \in SheetHeaders, n \in 0..MaxSheetRows, e \in 0..1}

(***************************************************************************)
(* The tabular frame and the library calls on it.                          *)
(***************************************************************************)
NaN == "NaN"
NoError == "none"

Frame(cols, rs) == [columns |-> cols, rows |-> rs]
Result(e, f) == [exc |-> e, frame |-> f]
Raise(e) == Result(e, Frame(<<>>, <<>>))

\* DataFrame.shape
shape(f) == <<Len(f.rows), Len(f.columns)>>

\* a missing cell is NaN in the frame and an empty cell in a file
FromField(v) == IF v = "" THEN NaN ELSE v
ToCell(v) == IF v = NaN THEN "" ELSE v

\* an empty header field is named after its position
Unnamed(h) == [i \in 1..Len(h) |-> IF h[i] = "" THEN "Unnamed: " \o ToString(i - 1) ELSE h[i]]

\* a repeated header name gets the count of its earlier occurrences appended
Dedup(h) ==
    [i \in 1..Len(h) |->
        LET c == Cardinality({j \in 1..(i - 1) : h[j] = h[i]})
        IN  IF c = 0 THEN h[i] ELSE h[i] \o "." \o ToString(c)]

ColumnNames(h) == Dedup(Unnamed(h))

\* pd.read_csv(csv_file) with the defaults: blank lines are skipped, the
\* first line left is the header, the first data line fixes the width, a
\* later line with more fields is a tokenizing error, a shorter one is
\* padded, and fields in front of the header's width become the index
read_csv(file) ==
    IF file.kind = "absent" THEN Raise("FileNotFoundError")
    ELSE IF file.kind # "csv" THEN Raise("UnicodeDecodeError")
    ELSE
        LET L == SelectSeq(file.lines, LAMBDA l : l # <<"">>)
        IN  IF L = <<>> THEN Raise("EmptyDataError")
            ELSE
                LET header == Head(L)
                    data == Tail(L)
                    k == Len(header)
                    W == IF data = <<>> THEN k ELSE Max(k, Len(data[1]))
                    lead == W - k
                    field(l, j) == IF j <= Len(l) THEN l[j] ELSE ""
                IN  IF \E i \in 2..Len(data) : Len(data[i]) > W
                    THEN Raise("ParserError")
                    ELSE Result(NoError,
                            Frame(ColumnNames(header),
                                  [i \in 1..Len(data) |->
                                      [j \in 1..k |-> FromField(field(data[i], lead + j))]]))

\* to_excel as it would be without index=False: the row index is written
\* as a first column under an empty header cell
to_excel_WithIndex(f) ==
    File("xlsx", <<<<"">> \o f.columns>> \o [i \in 1..Len(f.rows) |->
                     <<ToString(i - 1)>> \o [j \in 1..Len(f.rows[i]) |-> ToCell(f.rows[i][j])]])

\* df.to_excel(excel_file, index=False): the header row, then the rows,
\* no index column
to_excel(f) ==
    File("xlsx", <<f.columns>> \o [i \in 1..Len(f.rows) |->
                                    [j \in 1..Len(f.rows[i]) |-> ToCell(f.rows[i][j])]])

\* the largest index of the set I, 0 if it is empty
LastIndex(I) == IF I = {} THEN 0 ELSE CHOOSE i \in I : \A j \in I : j <= i

\* pd.read_excel(file_path) with the defaults: trailing empty cells of a
\* row and trailing empty rows of the sheet are trimmed, the rows are
\* padded to the widest one, the first row is the header
read_excel(file) ==
    IF file.kind = "absent" THEN Raise("FileNotFoundError")
    ELSE IF file.kind # "xlsx" THEN Raise("ValueError")
    ELSE
        LET trimmed == [i \in 1..Len(file.lines) |->
                           SubSeq(file.lines[i], 1,
                                  LastIndex({j \in 1..Len(file.lines[i]) : file.lines[i][j] # ""}))]
            data == SubSeq(trimmed, 1, LastIndex({i \in 1..Len(trimmed) : trimmed[i] # <<>>}))
        IN  IF data = <<>> THEN Result(NoError, Frame(<<>>, <<>>))
            ELSE
                LET width == CHOOSE w \in {Len(data[i]) : i \in 1..Len(data)} :
                                 \A i \in 1..Len(data) : Len(data[i]) <= w
                    cell(r, j) == IF j <= Len(r) THEN r[j] ELSE ""
                IN  Result(NoError,
                        Frame(ColumnNames([j \in 1..width |-> cell(data[1], j)]),
                              [i \in 1..(Len(data) - 1) |->
                                  [j \in 1..width |-> FromField(cell(data[i + 1], j))]]))

\* head as it would be if the whole frame were printed
head_All(f) == Frame(f.columns, f.rows)

\* df.head(): the first five rows, or all of them when there are fewer
head(f) == Frame(f.columns, SubSeq(f.rows, 1, Min(HeadRows, Len(f.rows))))

(***************************************************************************)
(* Exceptions.  Both scripts guard their operation with `except Exception`;*)
(* every error the library calls raise is a subclass of Exception.         *)
(***************************************************************************)
ExceptionSubclasses ==
    {"FileNotFoundError", "UnicodeDecodeError", "EmptyDataError", "ParserError",
     "PermissionError", "OSError", "ValueError"}

\* the handler as it would be with `except pd.errors.ParserError`
Caught_ParserOnly(e) == e \in {"ParserError", "EmptyDataError"}

Caught(e) == e \in ExceptionSubclasses

(***************************************************************************)
(* Process state.  stdout is the sequence of lines printed by the running  *)
(* script, io the sequence of filesystem operations it has performed, fs0  *)
(* the filesystem when it was launched, prev the run before it.            *)
(***************************************************************************)
Line(k, v) == [kind |-> k, val |-> v]
Op(k, p) == <<k, p>>
Run(t, a, r, f) == [tool |-> t, argv |-> a, ret |-> r, fs0 |-> f]

InitialFiles == {Absent, Garbage} \cup CsvFiles \cup Workbooks

Init ==
    /\ fs \in {f \in [Paths -> InitialFiles] : f["p2"] \in {Absent, Garbage}}
    /\ tool = "none"
    /\ argv = <<>>
    /\ pc = "idle"
    /\ df = <<>>
    /\ exc = NoError
    /\ ret = "none"
    /\ exit_code = -1
    /\ stdout = <<>>
    /\ io = <<>>
    /\ fs0 = fs
    /\ prev = Run("none", <<>>, "none", fs)

\* a script is started with the argument vector a
Launch(t, a) ==
    /\ tool' = t
    /\ argv' = a
    /\ pc' = "main"
    /\ df' = <<>>
    /\ exc' = NoError
    /\ ret' = "none"
    /\ exit_code' = -1
    /\ stdout' = <<>>
    /\ io' = <<>>
    /\ fs0' = fs
    /\ prev' = Run(tool, argv, ret, fs0)
    /\ UNCHANGED fs

\* the process ends with exit code c
Exit(c) ==
    /\ pc' = "exited"
    /\ exit_code' = c

(***************************************************************************)
(* The converter, scripts/csv_to_excel.py.                                 *)
(***************************************************************************)
csv_file == argv[1]
excel_file == argv[2]

ConvLaunch ==
    /\ pc = "idle"
    /\ \E a \in ArgVectors : Launch("converter", a)

\* the argument check as it would be if it forgot that sys.argv counts the
\* program name
ConvMain_CountsProgramName ==
    /\ tool = "converter" /\ pc = "main"
    /\ IF Len(argv) # 3
       THEN /\ stdout' = Append(stdout, Line("usage", "csv_to_excel.py"))
            /\ Exit(1)
       ELSE /\ pc' = "exists"
            /\ UNCHANGED <<stdout, exit_code>>
    /\ UNCHANGED <<fs, tool, argv, df, exc, ret, io, fs0, prev>>

\* if len(sys.argv) != 3: print usage; sys.exit(1)
ConvMain ==
    /\ tool = "converter" /\ pc = "main"
    /\ IF Len(argv) # 2
       THEN /\ stdout' = Append(stdout, Line("usage", "csv_to_excel.py"))
            /\ Exit(1)
       ELSE /\ pc' = "exists"
            /\ UNCHANGED <<stdout, exit_code>>
    /\ UNCHANGED <<fs, tool, argv, df, exc, ret, io, fs0, prev>>

\* the existence check as it would be without its `return False`
ConvExists_FallsThrough ==
    /\ tool = "converter" /\ pc = "exists"
    /\ io' = Append(io, Op("exists", csv_file))
    /\ stdout' = IF fs[csv_file].kind = "absent"
                 THEN Append(stdout, Line("missing", csv_file))
                 ELSE stdout
    /\ pc' = "read_csv"
    /\ UNCHANGED <<fs, tool, argv, df, exc, ret, exit_code, fs0, prev>>

\* if not os.path.exists(csv_file): print; return False
ConvExists ==
    /\ tool = "converter" /\ pc = "exists"
    /\ io' = Append(io, Op("exists", csv_file))
    /\ IF fs[csv_file].kind = "absent"
       THEN /\ stdout' = Append(stdout, Line("missing", csv_file))
            /\ ret' = "False"
            /\ pc' = "returned"
       ELSE /\ pc' = "read_csv"
            /\ UNCHANGED <<stdout, ret>>
    /\ UNCHANGED <<fs, tool, argv, df, exc, exit_code, fs0, prev>>

\* the read step as it would be if the output file were opened for writing
\* before the input is parsed
ConvReadCsv_OpensOutput ==
    /\ tool = "converter" /\ pc = "read_csv"
    /\ io' = Append(io, Op("read", csv_file))
    /\ fs' = [fs EXCEPT ![excel_file] = Garbage]
    /\ LET r == read_csv(fs[csv_file])
       IN  IF r.exc # NoError
           THEN /\ exc' = r.exc
                /\ pc' = "except"
                /\ UNCHANGED df
           ELSE /\ df' = <<r.frame>>
                /\ pc' = "to_excel"
                /\ UNCHANGED exc
    /\ UNCHANGED <<tool, argv, ret, exit_code, stdout, fs0, prev>>

\* df = pd.read_csv(csv_file)
ConvReadCsv ==
    /\ tool = "converter" /\ pc = "read_csv"
    /\ io' = Append(io, Op("read", csv_file))
    /\ LET r == read_csv(fs[csv_file])
       IN  IF r.exc # NoError
           THEN /\ exc' = r.exc
                /\ pc' = "except"
                /\ UNCHANGED df
           ELSE /\ df' = <<r.frame>>
                /\ pc' = "to_excel"
                /\ UNCHANGED exc
    /\ UNCHANGED <<fs, tool, argv, ret, exit_code, stdout, fs0, prev>>

\* the write step as it would be with its path arguments confused
ConvToExcel_WritesInput ==
    /\ tool = "converter" /\ pc = "to_excel"
    /\ io' = Append(io, Op("write", csv_file))
    /\ \/ /\ fs' = [fs EXCEPT ![csv_file] = to_excel(df[1])]
          /\ pc' = "success"
          /\ UNCHANGED exc
       \/ /\ exc' = "PermissionError"
          /\ pc' = "except"
          /\ UNCHANGED fs
       \/ /\ fs' = [fs EXCEPT ![csv_file] = Garbage]
          /\ exc' = "OSError"
          /\ pc' = "except"
    /\ UNCHANGED <<tool, argv, df, ret, exit_code, stdout, fs0, prev>>

\* df.to_excel(excel_file, index=False): the write completes, or it is
\* refused and leaves the path as it was, or it fails part-way and leaves
\* an unreadable file
ConvToExcel ==
    /\ tool = "converter" /\ pc = "to_excel"
    /\ io' = Append(io, Op("write", excel_file))
    /\ \/ /\ fs' = [fs EXCEPT ![excel_file] = to_excel(df[1])]
          /\ pc' = "success"
          /\ UNCHANGED exc
       \/ /\ exc' = "PermissionError"
          /\ pc' = "except"
          /\ UNCHANGED fs
       \/ /\ fs' = [fs EXCEPT ![excel_file] = Garbage]
          /\ exc' = "OSError"
          /\ pc' = "except"
    /\ UNCHANGED <<tool, argv, df, ret, exit_code, stdout, fs0, prev>>

\* print(f"Successfully converted ..."); return True
ConvSuccess ==
    /\ tool = "converter" /\ pc = "success"
    /\ stdout' = Append(stdout, Line("converted", <<csv_file, excel_file>>))
    /\ ret' = "True"
    /\ pc' = "returned"
    /\ UNCHANGED <<fs, tool, argv, df, exc, exit_code, io, fs0, prev>>

\* except Exception as e: print(f"Error converting file: {e}"); return False
\* (an exception the clause does not catch ends the process with a
\* traceback on standard error and exit code 1)
ConvExcept ==
    /\ tool = "converter" /\ pc = "except"
    /\ IF Caught(exc)
       THEN /\ stdout' = Append(stdout, Line("error", exc))
            /\ ret' = "False"
            /\ pc' = "returned"
            /\ UNCHANGED exit_code
       ELSE /\ Exit(1)
            /\ UNCHANGED <<stdout, ret>>
    /\ UNCHANGED <<fs, tool, argv, df, exc, io, fs0, prev>>

\* the end of the script as it would be without `sys.exit(1)`
ConvExit_NoFailureExit ==
    /\ tool = "converter" /\ pc = "returned"
    /\ Exit(0)
    /\ UNCHANGED <<fs, tool, argv, df, exc, ret, stdout, io, fs0, prev>>

\* success = csv_to_excel(...); if not success: sys.exit(1)
ConvExit ==
    /\ tool = "converter" /\ pc = "returned"
    /\ Exit(IF ret = "True" THEN 0 ELSE 1)
    /\ UNCHANGED <<fs, tool, argv, df, exc, ret, stdout, io, fs0, prev>>

(***************************************************************************)
(* The inspector, scripts/test_excel.py.                                   *)
(***************************************************************************)
file_path == argv[1]

InspLaunch ==
    /\ pc \in {"idle", "exited"}
    /\ tool # "inspector"
    /\ \E a \in ArgVectors : Launch("inspector", a)

\* if len(sys.argv) != 2: print usage; sys.exit(1)
InspMain ==
    /\ tool = "inspector" /\ pc = "main"
    /\ IF Len(argv) # 1
       THEN /\ stdout' = Append(stdout, Line("usage", "test_excel.py"))
            /\ Exit(1)
       ELSE /\ pc' = "read_excel"
            /\ UNCHANGED <<stdout, exit_code>>
    /\ UNCHANGED <<fs, tool, argv, df, exc, ret, io, fs0, prev>>

\* the read step as it would be if the confirmation were printed before
\* the workbook is read
InspReadExcel_ConfirmsFirst ==
    /\ tool = "inspector" /\ pc = "read_excel"
    /\ io' = Append(io, Op("read", file_path))
    /\ stdout' = Append(stdout, Line("read_ok", ""))
    /\ LET r == read_excel(fs[file_path])
       IN  IF r.exc # NoError
           THEN /\ exc' = r.exc
                /\ pc' = "except"
                /\ UNCHANGED df
           ELSE /\ df' = <<r.frame>>
                /\ pc' = "summary"
                /\ UNCHANGED exc
    /\ UNCHANGED <<fs, tool, argv, ret, exit_code, fs0, prev>>

\* df = pd.read_excel(file_path)
InspReadExcel ==
    /\ tool = "inspector" /\ pc = "read_excel"
    /\ io' = Append(io, Op("read", file_path))
    /\ LET r == read_excel(fs[file_path])
       IN  IF r.exc # NoError
           THEN /\ exc' = r.exc
                /\ pc' = "except"
                /\ UNCHANGED df
           ELSE /\ df' = <<r.frame>>
                /\ pc' = "summary"
                /\ UNCHANGED exc
    /\ UNCHANGED <<fs, tool, argv, ret, exit_code, stdout, fs0, prev>>

\* the lines printed for the frame f: the confirmation, the shape, the
\* column names one per line, the first rows
Summary(f) ==
    <<Line("read_ok", ""), Line("shape", shape(f)), Line("columns", "")>>
    \o [i \in 1..Len(f.columns) |-> Line("column", f.columns[i])]
    \o <<Line("first_rows", ""), Line("head", head(f).rows)>>

\* print(...) of the summary; return True
InspSummary ==
    /\ tool = "inspector" /\ pc = "summary"
    /\ stdout' = stdout \o Summary(df[1])
    /\ ret' = "True"
    /\ pc' = "returned"
    /\ UNCHANGED <<fs, tool, argv, df, exc, exit_code, io, fs0, prev>>

\* except Exception as e: print(f"Error reading file: {e}"); return False
InspExcept ==
    /\ tool = "inspector" /\ pc = "except"
    /\ IF Caught(exc)
       THEN /\ stdout' = Append(stdout, Line("error", exc))
            /\ ret' = "False"
            /\ pc' = "returned"
            /\ UNCHANGED exit_code
       ELSE /\ Exit(1)
            /\ UNCHANGED <<stdout, ret>>
    /\ UNCHANGED <<fs, tool, argv, df, exc, io, fs0, prev>>

\* success = test_excel_file(file_path); if not success: sys.exit(1)
InspExit ==
    /\ tool = "inspector" /\ pc = "returned"
    /\ Exit(IF ret = "True" THEN 0 ELSE 1)
    /\ UNCHANGED <<fs, tool, argv, df, exc, ret, stdout, io, fs0, prev>>

Next ==
    \/ ConvLaunch
    \/ ConvMain
    \/ ConvExists
    \/ ConvReadCsv
    \/ ConvToExcel
    \/ ConvSuccess
    \/ ConvExcept
    \/ ConvExit
    \/ InspLaunch
    \/ InspMain
    \/ InspReadExcel
    \/ InspSummary
    \/ InspExcept
    \/ InspExit

Spec == Init /\ [][Next]_vars

(***************************************************************************)
(* Vocabulary of the properties.                                           *)
(***************************************************************************)
Done == pc = "exited"
Returned == pc \in {"returned", "exited"} /\ ret # "none"
Converter == tool = "converter"
Inspector == tool = "inspector"
Arity == IF Converter THEN 2 ELSE 1
Did(k) == \E i \in 1..Len(io) : io[i][1] = k
HasLine(k) == \E i \in 1..Len(stdout) : stdout[i].kind = k
Diagnostics == {"usage", "missing", "error"}
SummaryLines == {"read_ok", "shape", "columns", "column", "first_rows", "head"}
Uncaught == Done /\ ret = "none" /\ exc # NoError

\* C1: a finished run of either tool has exit code 0 exactly when the
\* argument count was right and the operation returned True, which it does
\* only after doing all of its work (the workbook of the parsed input is at
\* the output path; the whole summary of the workbook is printed); every
\* other finished run has exit code 1 and ends standard output with a
\* diagnostic line.
C1_ExitCodeIsBinary ==
    (tool # "none" /\ Done) =>
        /\ exit_code \in {0, 1}
        /\ exit_code = 0 <=> (Len(argv) = Arity /\ ret = "True")
        /\ exit_code = 1 => (stdout # <<>> /\ stdout[Len(stdout)].kind \in Diagnostics)
        /\ (ret = "True" /\ Converter) =>
               fs[excel_file] = to_excel(read_csv(fs0[csv_file]).frame)
        /\ (ret = "True" /\ Inspector) =>
               stdout = Summary(read_excel(fs[file_path]).frame)

C1_Witness ==
    /\ Inspector /\ Done /\ exit_code = 0
    /\ prev.tool = "converter" /\ prev.ret = "False"

\* C2: a converter run whose input path does not exist prints the
\* diagnostic naming that path, returns False and exits with code 1; the
\* only filesystem operation it performs is the existence check, and the
\* filesystem stays as it was.
C2_MissingInput ==
    (Converter /\ Len(argv) = 2 /\ fs0[csv_file].kind = "absent") =>
        /\ \A i \in 1..Len(io) : io[i] = Op("exists", csv_file)
        /\ fs = fs0
        /\ pc \in {"main", "exists", "returned", "exited"}
        /\ pc \in {"returned", "exited"} =>
               (stdout = <<Line("missing", csv_file)>> /\ ret = "False")
        /\ Done => exit_code = 1

C2_Witness ==
    /\ Converter /\ Len(argv) = 2 /\ fs0[csv_file].kind = "absent"
    /\ Done /\ io # <<>> /\ fs[excel_file].kind = "absent"

\* C3: a run of either tool with the wrong number of arguments prints the
\* usage message and exits with code 1 having performed no filesystem
\* operation at all.
C3_UsageError ==
    (tool # "none" /\ Len(argv) # Arity) =>
        /\ io = <<>>
        /\ fs = fs0
        /\ pc \in {"main", "exited"}
        /\ Done => (exit_code = 1 /\ Len(stdout) = 1 /\ stdout[1].kind = "usage")

C3_Witness == Converter /\ Len(argv) = 3 /\ Done /\ fs[argv[1]].kind = "csv"

\* C4: in the converter a failure of the read step or of the write step is
\* never left uncaught: csv_to_excel prints the error and returns False.
C4_FailuresCaught ==
    Converter =>
        /\ ~Uncaught
        /\ (exc # NoError /\ pc \in {"returned", "exited"}) =>
               (ret = "False" /\ stdout = <<Line("error", exc)>>)

C4_Witness ==
    /\ Converter /\ pc = "returned" /\ exc = "OSError"
    /\ prev.tool = "none" /\ Did("write")

\* C5: an inspector run on a path that holds no workbook (absent, or not a
\* readable workbook) prints no line of the summary at any point, returns
\* False and exits with code 1 with the error diagnostic as its only output.
C5_NoPartialSummary ==
    (Inspector /\ Len(argv) = 1 /\ fs[file_path].kind # "xlsx") =>
        /\ \A i \in 1..Len(stdout) : stdout[i].kind \notin SummaryLines
        /\ pc \in {"returned", "exited"} =>
               (ret = "False" /\ stdout = <<Line("error", exc)>>)
        /\ Done => exit_code = 1

C5_Witness ==
    /\ Inspector /\ Len(argv) = 1 /\ fs[file_path].kind = "garbage"
    /\ Done /\ stdout # <<>>

(***************************************************************************)
(* Converting, then inspecting the produced workbook.                      *)
(***************************************************************************)
\* delimited text with a header of non-empty names and data lines that all
\* have the header's number of fields and at least one non-empty field
ValidCsv(file) ==
    /\ file.kind = "csv"
    /\ file.lines # <<>>
    /\ \A i \in 1..Len(file.lines) :
           /\ Len(file.lines[i]) = Len(file.lines[1])
           /\ \E j \in 1..Len(file.lines[i]) : file.lines[i][j] # ""
    /\ \A j \in 1..Len(file.lines[1]) : file.lines[1][j] # ""

\* the inspector has finished reading the workbook that the run before it,
\* a successful conversion, wrote
InspectedConversion ==
    /\ Inspector /\ Done /\ ret = "True"
    /\ prev.tool = "converter" /\ prev.ret = "True"
    /\ file_path = prev.argv[2]

Source == prev.fs0[prev.argv[1]]

\* the column names the inspector printed, in the order printed
PrintedColumns ==
    LET I == {i \in 1..Len(stdout) : stdout[i].kind = "column"}
    IN  [n \in 1..Cardinality(I) |->
            stdout[CHOOSE i \in I : Cardinality({j \in I : j <= i}) = n].val]

PrintedShape == stdout[CHOOSE i \in 1..Len(stdout) : stdout[i].kind = "shape"].val

\* C6: for every valid CSV file with a header and N data rows, converting
\* it and then inspecting the produced workbook reports the shape
\* (N, number of header fields) and lists the header's names in the
\* header's order.
C6_RoundTrip ==
    (InspectedConversion /\ ValidCsv(Source)) =>
        /\ PrintedShape = <<Len(Source.lines) - 1, Len(Source.lines[1])>>
        /\ PrintedColumns = Source.lines[1]

\* C7: converting a CSV file that holds a header line and nothing else does
\* not fail at the read step and, unless the write itself fails, returns
\* True and exits with code 0, leaving at the output path a workbook that
\* reads back, and is reported by the inspector, with shape
\* (0, number of header fields).
HeaderOnly(file) ==
    file.kind = "csv" /\ Len(file.lines) = 1 /\ file.lines[1] # <<"">>

C7_HeaderOnly ==
    /\ (Converter /\ Len(argv) = 2 /\ HeaderOnly(fs0[csv_file])) =>
           /\ exc # NoError => Did("write")
           /\ (pc \in {"returned", "exited"} /\ exc = NoError) =>
                  /\ ret = "True"
                  /\ Done => exit_code = 0
                  /\ read_excel(fs[excel_file]).exc = NoError
                  /\ shape(read_excel(fs[excel_file]).frame)
                         = <<0, Len(fs0[csv_file].lines[1])>>
    /\ (InspectedConversion /\ HeaderOnly(Source)) =>
           PrintedShape = <<0, Len(Source.lines[1])>>

C7_Witness ==
    /\ InspectedConversion /\ HeaderOnly(Source)
    /\ Len(Source.lines[1]) = 2

\* C8: at every point of a converter run, whatever its outcome, every file
\* other than the one output_path names is as it was when the run started
\* (input_path's file too, whenever it is another file than output_path's).
C8_OnlyOutputChanges ==
    Converter =>
        \A p \in Paths : (Len(argv) # 2 \/ p # excel_file) => fs[p] = fs0[p]

C8_Witness ==
    /\ Converter /\ Done /\ Len(argv) = 2
    /\ csv_file # excel_file
    /\ fs0[excel_file].kind = "garbage" /\ fs[excel_file].kind = "xlsx"

\* C9: an inspector run that reads a workbook of N rows prints the
\* confirmation, then the shape (N, number of columns), then every column
\* name in frame order, one per line, then the first min(5, N) rows and no
\* others, and returns True.
C9_Summary ==
    (Inspector /\ Len(argv) = 1 /\ pc \in {"returned", "exited"} /\ exc = NoError) =>
        LET f == read_excel(fs[file_path]).frame
            N == Len(f.rows)
            k == Len(f.columns)
        IN  /\ ret = "True"
            /\ Len(stdout) = k + 5
            /\ stdout[1].kind = "read_ok"
            /\ stdout[2] = Line("shape", <<N, k>>)
            /\ \A j \in 1..k : stdout[3 + j] = Line("column", f.columns[j])
            /\ stdout[k + 5].kind = "head"
            /\ Len(stdout[k + 5].val) = (IF N < 5 THEN N ELSE 5)
            /\ \A i \in 1..Len(stdout[k + 5].val) : stdout[k + 5].val[i] = f.rows[i]

C9_Witness ==
    /\ Inspector /\ pc = "returned" /\ ret = "True"
    /\ Len(df[1].rows) > 5 /\ Len(df[1].columns) = 2

\* C10: the converter writes only after the existence check has passed and
\* the parse has succeeded, and prints the success message only after the
\* write has completed; so a run whose parse fails leaves the filesystem as
\* it was, and no run prints both the success message and a diagnostic.
C10_WriteAfterParse ==
    Converter =>
        /\ Did("write") =>
               /\ io = <<Op("exists", csv_file), Op("read", csv_file), Op("write", excel_file)>>
               /\ fs0[csv_file].kind # "absent"
               /\ read_csv(fs0[csv_file]).exc = NoError
               /\ df = <<read_csv(fs0[csv_file]).frame>>
        /\ HasLine("converted") =>
               (Did("write") /\ exc = NoError /\ fs[excel_file] = to_excel(df[1]))
        /\ (exc # NoError /\ ~Did("write")) => fs = fs0
        /\ (Len(argv) = 2 /\ read_csv(fs0[csv_file]).exc # NoError) => fs = fs0
        /\ ~(HasLine("converted") /\ \E k \in Diagnostics : HasLine(k))

C10_Witness ==
    /\ Converter /\ pc = "returned" /\ exc = "ParserError"
    /\ fs0[excel_file].kind = "garbage" /\ csv_file # excel_file

====
